---- MODULE Spec2Model ----
(***************************************************************************)
(* Label Compliance Checker (src/app.py): the response normalizer          *)
(* parse_openai_response, the background job background_process, the       *)
(* upload handler upload_page and the two readers of the processed         *)
(* directory, grid_view and detailed_view.                                 *)
(*                                                                         *)
(* A text is a sequence of characters.  The characters that matter to the  *)
(* code are kept one by one (the slices of parse_openai_response count     *)
(* them); RUBRIC stands for the member list of a complete rubric document  *)
(* ("manufacturer_info": {...}, ..., "overall_status": {...}), which is    *)
(* only ever read between a pair of braces.                                *)
(***************************************************************************)
EXTENDS Integers, Sequences, FiniteSets, TLC

BT == "BACKTICK"
NL == "NL"
SP == "SP"
NNBSP == "NNBSP"
RUBRIC == "RUBRIC"

Min(S) == CHOOSE m \in S : \A k \in S : m <= k

Max(S) == CHOOSE m \in S : \A k \in S : m >= k

(***************************************************************************)
(* Python string primitives used by parse_openai_response.                 *)
(***************************************************************************)
\* str.replace: every U+202F (narrow no-break space) becomes a space
ReplaceNarrowSpace(s) == [i \in 1..Len(s) |-> IF s[i] = NNBSP THEN SP ELSE s[i]]

\* str.startswith(p)
StartsWith(s, p) == Len(s) >= Len(p) /\ SubSeq(s, 1, Len(p)) = p

\* s[a:-4]: drop the first a characters and the last four
SliceOff(s, a) == IF Len(s) - 4 <= a THEN <<>> ELSE SubSeq(s, a + 1, Len(s) - 4)

\* characters str.strip() removes (str.isspace)
IsSpace(c) == c \in {SP, NL, NNBSP}

\* str.strip()
Strip(s) ==
    LET keep == {i \in 1..Len(s) : ~IsSpace(s[i])}
    IN  IF keep = {} THEN <<>> ELSE SubSeq(s, Min(keep), Max(keep))

FenceJson == <<BT, BT, BT, "j", "s", "o", "n", NL>>

FencePlain == <<BT, BT, BT, NL>>

\* lines 44-47: the fence is removed only when the text starts with it
StripFence(s) ==
    IF StartsWith(s, FenceJson) THEN SliceOff(s, 8)
    ELSE IF StartsWith(s, FencePlain) THEN SliceOff(s, 4)
    ELSE s

(***************************************************************************)
(* json.loads on a text of this alphabet.  A value is a number (a run of   *)
(* digits 1), an array of at most one value (the alphabet has no comma),   *)
(* the empty object, or the object {RUBRIC}.  The parsed value is kept as  *)
(* its text without insignificant whitespace.                              *)
(***************************************************************************)
\* whitespace the json scanner skips
JsonWs(c) == c \in {SP, NL}

SkipWs(s, i) == Min({k \in i..(Len(s) + 1) : k = Len(s) + 1 \/ ~JsonWs(s[k])})

DigitsEnd(s, i) == Min({k \in i..(Len(s) + 1) : k = Len(s) + 1 \/ s[k] # "1"})

JsonFail(msg) == [ok |-> FALSE, val |-> <<>>, next |-> 0, msg |-> msg]

JsonOk(val, next) == [ok |-> TRUE, val |-> val, next |-> next, msg |-> ""]

RECURSIVE ScanOnce(_, _)
\* json.scanner: one value starting at position i
ScanOnce(s, i) ==
    IF i > Len(s) THEN JsonFail("Expecting value")
    ELSE IF s[i] = "1" THEN JsonOk(SubSeq(s, i, DigitsEnd(s, i) - 1), DigitsEnd(s, i))
    ELSE IF s[i] = "[" THEN
        LET j == SkipWs(s, i + 1)
        IN  IF j <= Len(s) /\ s[j] = "]" THEN JsonOk(<<"[", "]">>, j + 1)
            ELSE LET r == ScanOnce(s, j)
                 IN  IF ~r.ok THEN r
                     ELSE LET k == SkipWs(s, r.next)
                          IN  IF k <= Len(s) /\ s[k] = "]"
                              THEN JsonOk(<<"[">> \o r.val \o <<"]">>, k + 1)
                              ELSE JsonFail("Expecting ',' delimiter")
    ELSE IF s[i] = "{" THEN
        LET j == SkipWs(s, i + 1)
        IN  IF j <= Len(s) /\ s[j] = "}" THEN JsonOk(<<"{", "}">>, j + 1)
            ELSE IF j <= Len(s) /\ s[j] = RUBRIC THEN
                LET k == SkipWs(s, j + 1)
                IN  IF k <= Len(s) /\ s[k] = "}"
                    THEN JsonOk(<<"{", RUBRIC, "}">>, k + 1)
                    ELSE JsonFail("Expecting ',' delimiter")
            ELSE JsonFail("Expecting property name enclosed in double quotes")
    ELSE JsonFail("Expecting value")

\* json.loads: one value, whitespace around it, nothing after it
JsonLoads(s) ==
    LET r == ScanOnce(s, SkipWs(s, 1))
    IN  IF ~r.ok THEN r
        ELSE IF SkipWs(s, r.next) <= Len(s) THEN JsonFail("Extra data")
        ELSE r

(***************************************************************************)
(* parse_openai_response.  The argument is [type, v]: a str (its text) or  *)
(* a dict (its value).  The result is what the caller gets: the parsed     *)
(* value, or the exception raised at line 56 (its message) together with   *)
(* the line printed at line 55.                                            *)
(***************************************************************************)
Str(t) == [type |-> "str", v |-> t]

Dict(v) == [type |-> "dict", v |-> v]

ParseOk(value) == [ok |-> TRUE, value |-> value, exc |-> <<>>, printed |-> <<>>]

\* lines 54-56: print the description as it is by then, raise Exception(message)
ParseRaise(msg, description) ==
    [ok |-> FALSE, value |-> <<>>,
     exc |-> <<"Error parsing JSON response: ", msg>>,
     printed |-> <<"Raw description: ">> \o description]

\* line 53 and the handler of lines 54-56, on the cleaned description
LoadsOrRaise(description) ==
    LET r == JsonLoads(description)
    IN  IF r.ok THEN ParseOk(r.val) ELSE ParseRaise(r.msg, description)

parse_openai_response(d) ==
    IF d.type = "dict" THEN ParseOk(d.v)
    ELSE LoadsOrRaise(Strip(StripFence(ReplaceNarrowSpace(d.v))))

(***************************************************************************)
(* The envelope background_process builds, and its file.                   *)
(***************************************************************************)
Filenames == {"x.jpg"}

\* uploads handled in one behaviour
MaxUploads == 2

\* the last second the clock reaches in one behaviour
MaxClock == 0

\* the seconds the clock may show
Seconds == 0..MaxClock

\* time.strftime("%Y-%m-%d %H:%M:%S") of the clock
strftime(t) == ToString(t)

\* what the external call may return (response.choices[0].message.content)
TextFenced == FenceJson \o <<"{", RUBRIC, "}", NL, BT, BT, BT>>

TextNotJson == <<"n", "o", "t", SP, "j", "s", "o", "n">>

ExternalTexts == {TextFenced, TextNotJson}

\* str(e) of what the external call may raise
ExternalErrors == {<<"quota">>}

\* line 136: raise Exception(f"Error analyzing image: {str(e)}")
AnalyzeMessage(e) == <<"Error analyzing image: ">> \o e

\* SuccessResults, had line 151 stored the cleaned text
SuccessResultsNormalized(filename, description, ts) ==
    [filename |-> filename,
     description |-> Strip(StripFence(ReplaceNarrowSpace(description))),
     timestamp |-> ts]

\* lines 149-153
SuccessResults(filename, description, ts) ==
    [filename |-> filename, description |-> description, timestamp |-> ts]

\* ErrorResults, had the handler also filled the description key
ErrorResultsWithDescription(filename, msg, ts) ==
    [filename |-> filename, description |-> msg, error |-> msg, timestamp |-> ts]

\* lines 155-159
ErrorResults(filename, msg, ts) ==
    [filename |-> filename, error |-> msg, timestamp |-> ts]

NoResults == [unbound |-> TRUE]

\* json.dump(results, f, indent=4): the document, keys in insertion order
JsonDump(results) ==
    <<"{", "filename:", results.filename>>
    \o (IF "description" \in DOMAIN results
        THEN <<"description:", "QUOTE">> \o results.description
        ELSE <<"error:", "QUOTE">> \o results.error)
    \o <<"QUOTE", "timestamp:", results.timestamp, "}">>

\* f.write at offset 0 of a file opened with "w" by this writer: bytes another
\* writer left beyond the end of this document stay
Overlay(old, new) == new \o SubSeq(old, Len(new) + 1, Len(old))

LoadFail(msg) == [ok |-> FALSE, msg |-> msg, analysis |-> NoResults]

\* json.load(f) of an envelope file
JsonLoadFile(c) ==
    LET q == {k \in 6..Len(c) : c[k] = "QUOTE"}
        n == Min(q)
    IN  IF Len(c) < 9 \/ q = {} THEN LoadFail("Expecting value")
        ELSE IF ~(/\ c[1] = "{" /\ c[2] = "filename:" /\ c[5] = "QUOTE"
                  /\ c[4] \in {"description:", "error:"}
                  /\ Len(c) >= n + 3 /\ c[n + 1] = "timestamp:" /\ c[n + 3] = "}")
             THEN LoadFail("Expecting value")
        ELSE IF Len(c) > n + 3 THEN LoadFail("Extra data")
        ELSE [ok |-> TRUE, msg |-> "",
              analysis |-> IF c[4] = "description:"
                           THEN SuccessResults(c[3], SubSeq(c, 6, n - 1), c[n + 2])
                           ELSE ErrorResults(c[3], SubSeq(c, 6, n - 1), c[n + 2])]

(***************************************************************************)
(* State.                                                                  *)
(*   uploads, processed  the image files of the two directories: 0 when    *)
(*                       the file is absent, k for the bytes of the k-th   *)
(*                       upload                                            *)
(*   envfile             the <name>_analysis.json files of processed/      *)
(*   jobs                the background threads, in the order started:     *)
(*                       filename, position, the copy buffer, the outcome  *)
(*                       of analyze_image, the local results, and the      *)
(*                       steps done so far                                 *)
(*   fg                  the upload handler's position in upload_page      *)
(*   now                 the second last read from the clock               *)
(*   view                what the reader that ran in the last step         *)
(*                       rendered; NoView after any other step             *)
(*   nz                  one call of parse_openai_response, line by line   *)
(***************************************************************************)
VARIABLES uploads, processed, envfile, jobs, fg, now, view, nz

vars == <<uploads, processed, envfile, jobs, fg, now, view, nz>>

sysvars == <<uploads, processed, envfile, jobs, fg, now, view>>

NoEnvFile == [exists |-> FALSE, bytes |-> <<>>]

NoOutcome == [kind |-> "none", text |-> <<>>]

NoEntries == [f \in {} |-> 0]

NoView == [page |-> "none", warning |-> FALSE, exc |-> "", entries |-> NoEntries]

NzIdle == [pc |-> "idle", style |-> "none", content |-> <<>>, raw |-> Str(<<>>),
           description |-> <<>>, result |-> ParseOk(<<>>)]

\* lines 19-21: both directories exist and are empty
SysInit ==
    /\ uploads = [f \in Filenames |-> 0]
    /\ processed = [f \in Filenames |-> 0]
    /\ envfile = [f \in Filenames |-> NoEnvFile]
    /\ jobs = <<>>
    /\ fg = [pc |-> "idle", name |-> ""]
    /\ now = 0
    /\ view = NoView

Init == SysInit /\ nz = NzIdle

JobIds == 1..Len(jobs)

SetJob(j, r) == [jobs EXCEPT ![j] = r]

Did(job, step) == [job EXCEPT !.trace = Append(@, step)]

(***************************************************************************)
(* upload_page, lines 277-293.                                             *)
(***************************************************************************)
\* lines 278-282: the file is written under uploads/, over any file of that name
UploadWrite(f) ==
    /\ fg.pc = "idle"
    /\ Len(jobs) < MaxUploads
    /\ uploads' = [uploads EXCEPT ![f] = Len(jobs) + 1]
    /\ fg' = [pc |-> "written", name |-> f]
    /\ view' = NoView
    /\ UNCHANGED <<processed, envfile, jobs, now, nz>>

NewJob(f) ==
    [filename |-> f, pc |-> "start", buf |-> 0, outcome |-> NoOutcome,
     results |-> NoResults, trace |-> <<>>]

\* lines 286-291: the daemon thread is started on background_process(name)
StartThread ==
    /\ fg.pc = "written"
    /\ jobs' = Append(jobs, NewJob(fg.name))
    /\ fg' = [fg EXCEPT !.pc = "started"]
    /\ view' = NoView
    /\ UNCHANGED <<uploads, processed, envfile, now, nz>>

\* lines 292-293: after sleep(2) the handler goes on, whatever the thread did
UploadReturn ==
    /\ fg.pc = "started"
    /\ fg' = [pc |-> "idle", name |-> ""]
    /\ view' = NoView
    /\ UNCHANGED <<uploads, processed, envfile, jobs, now, nz>>

(***************************************************************************)
(* background_process, lines 138-163, one thread per job.                  *)
(***************************************************************************)
\* line 144, shutil.copy2 reading uploads/<name>
CopyRead(j) ==
    /\ jobs[j].pc = "start"
    /\ jobs' = SetJob(j, [jobs[j] EXCEPT !.pc = "copying",
                                         !.buf = uploads[jobs[j].filename]])
    /\ view' = NoView
    /\ UNCHANGED <<uploads, processed, envfile, fg, now, nz>>

\* line 144, shutil.copy2 writing processed/<name>
CopyWrite(j) ==
    /\ jobs[j].pc = "copying"
    /\ processed' = [processed EXCEPT ![jobs[j].filename] = jobs[j].buf]
    /\ jobs' = SetJob(j, Did([jobs[j] EXCEPT !.pc = "invoke"], "copy"))
    /\ view' = NoView
    /\ UNCHANGED <<uploads, envfile, fg, now, nz>>

\* line 144 raising (OSError): it is outside the try of line 146, so the
\* exception ends the thread
CopyFail(j) ==
    /\ jobs[j].pc = "start"
    /\ jobs' = SetJob(j, [jobs[j] EXCEPT !.pc = "crashed"])
    /\ view' = NoView
    /\ UNCHANGED <<uploads, processed, envfile, fg, now, nz>>

\* AnalyzeReturn, had the call been made before the copy of line 144
AnalyzeReturnBeforeCopy(j, text, t) ==
    /\ jobs[j].pc = "start"
    /\ t >= now
    /\ now' = t
    /\ jobs' = SetJob(j, Did([jobs[j] EXCEPT
                !.pc = "open",
                !.outcome = [kind |-> "returned", text |-> text],
                !.results = SuccessResults(jobs[j].filename, text, strftime(t))],
              "call"))
    /\ view' = NoView
    /\ UNCHANGED <<uploads, processed, envfile, fg, nz>>

\* lines 148-153: analyze_image returned text at second t
AnalyzeReturn(j, text, t) ==
    /\ jobs[j].pc = "invoke"
    /\ t >= now
    /\ now' = t
    /\ jobs' = SetJob(j, Did([jobs[j] EXCEPT
                !.pc = "open",
                !.outcome = [kind |-> "returned", text |-> text],
                !.results = SuccessResults(jobs[j].filename, text, strftime(t))],
              "call"))
    /\ view' = NoView
    /\ UNCHANGED <<uploads, processed, envfile, fg, nz>>

\* lines 132-136 and 154-159: analyze_image raised at second t, the handler
\* builds results
AnalyzeRaise(j, e, t) ==
    /\ jobs[j].pc = "invoke"
    /\ t >= now
    /\ now' = t
    /\ jobs' = SetJob(j, Did([jobs[j] EXCEPT
                !.pc = "open",
                !.outcome = [kind |-> "raised", text |-> AnalyzeMessage(e)],
                !.results = ErrorResults(jobs[j].filename, AnalyzeMessage(e),
                                         strftime(t))],
              "call"))
    /\ view' = NoView
    /\ UNCHANGED <<uploads, processed, envfile, fg, nz>>

\* line 162: open(..., "w") creates the file or truncates it
OpenEnvelope(j) ==
    /\ jobs[j].pc = "open"
    /\ envfile' = [envfile EXCEPT ![jobs[j].filename] = [exists |-> TRUE, bytes |-> <<>>]]
    /\ jobs' = SetJob(j, [jobs[j] EXCEPT !.pc = "dump"])
    /\ view' = NoView
    /\ UNCHANGED <<uploads, processed, fg, now, nz>>

\* line 163 and the close of the with block: the document reaches the file
DumpEnvelope(j) ==
    /\ jobs[j].pc = "dump"
    /\ envfile' = [envfile EXCEPT ![jobs[j].filename].bytes =
                       Overlay(@, JsonDump(jobs[j].results))]
    /\ jobs' = SetJob(j, Did([jobs[j] EXCEPT !.pc = "done"], "write"))
    /\ view' = NoView
    /\ UNCHANGED <<uploads, processed, fg, now, nz>>

(***************************************************************************)
(* The readers of processed/: grid_view (lines 312-356) and detailed_view  *)
(* (lines 358-453).  A page is [page, warning, exc, entries]: entries maps *)
(* each image shown to what is shown for it, [kind, msg, code]; exc names  *)
(* the exception that left the reader unhandled, "" when none did.         *)
(***************************************************************************)
\* st.error(msg), followed in detailed_view by st.code(code)
ErrorBox(msg, code) == [kind |-> "error", msg |-> msg, code |-> code]

\* the rendered analysis, with the envelope's timestamp
Rendered(kind, ts) == [kind |-> kind, msg |-> <<ts>>, code |-> <<>>]

\* desc[key] and the keys under it, as display_compliance_status (lines 167-189)
\* and lines 395-449 read them: only the rubric document has them
Subscript(desc, key) ==
    IF desc = <<"{", RUBRIC, "}">> THEN [ok |-> TRUE, msg |-> ""]
    ELSE IF desc = <<"{", "}">> THEN [ok |-> FALSE, msg |-> key]
    ELSE IF desc[1] = "[" THEN [ok |-> FALSE, msg |-> "list indices must be integers or slices, not str"]
    ELSE [ok |-> FALSE, msg |-> "'int' object is not subscriptable"]

\* lines 343-356: one cell of the grid; every exception is caught at line 355
GridEntry(f) ==
    LET a == JsonLoadFile(envfile[f].bytes)
        p == parse_openai_response(Str(a.analysis.description))
        k == Subscript(p.value, "'overall_status'")
    IN  IF ~a.ok THEN ErrorBox(<<"Error loading analysis: ", a.msg>>, <<>>)
        ELSE IF "description" \notin DOMAIN a.analysis
             THEN ErrorBox(<<"Error loading analysis: ", "'description'">>, <<>>)
        ELSE IF ~p.ok THEN ErrorBox(<<"Error loading analysis: ">> \o p.exc, <<>>)
        ELSE IF ~k.ok THEN ErrorBox(<<"Error loading analysis: ", k.msg>>, <<>>)
        ELSE Rendered("summary", a.analysis.timestamp)

\* ProcessedFiles, without the os.path.exists test of line 322
ProcessedFilesUnchecked == {f \in Filenames : processed[f] # 0}

\* lines 317-323: the images of processed/ that have an analysis file
ProcessedFiles == {f \in Filenames : processed[f] # 0 /\ envfile[f].exists}

\* lines 360-361: the images of processed/
ProcessedImages == {f \in Filenames : processed[f] # 0}

Page(name, entries) == [page |-> name, warning |-> FALSE, exc |-> "", entries |-> entries]

grid_view ==
    IF ProcessedFiles = {}
    THEN [Page("grid", NoEntries) EXCEPT !.warning = TRUE]
    ELSE Page("grid", [f \in ProcessedFiles |-> GridEntry(f)])

\* lines 379-453 for the image selected at line 367
DetailEntry(f) ==
    LET a == JsonLoadFile(envfile[f].bytes)
        p == parse_openai_response(Str(a.analysis.description))
        k == Subscript(p.value, "'manufacturer_info'")
    IN  IF ~envfile[f].exists
        THEN Page("detail", [g \in {f} |-> ErrorBox(<<"Analysis file not found">>, <<>>)])
        \* line 386 is outside the try of line 390
        ELSE IF ~a.ok
        THEN [Page("detail", NoEntries) EXCEPT !.exc = "JSONDecodeError"]
        \* line 391 raises KeyError, and so does line 453 in its handler
        ELSE IF "description" \notin DOMAIN a.analysis
        THEN [Page("detail", [g \in {f} |->
                 ErrorBox(<<"Error parsing analysis: ", "'description'">>, <<>>)])
              EXCEPT !.exc = "KeyError"]
        ELSE IF ~p.ok
        THEN Page("detail", [g \in {f} |->
                 ErrorBox(<<"Error parsing analysis: ">> \o p.exc, a.analysis.description)])
        ELSE IF ~k.ok
        THEN Page("detail", [g \in {f} |->
                 ErrorBox(<<"Error parsing analysis: ", k.msg>>, a.analysis.description)])
        ELSE Page("detail", [g \in {f} |-> Rendered("detail", a.analysis.timestamp)])

detailed_view(selected_image) ==
    IF ProcessedImages = {}
    THEN [Page("detail", NoEntries) EXCEPT !.warning = TRUE]
    ELSE DetailEntry(selected_image)

\* analysis_page, lines 307-308: the grid tab is rendered
GridView ==
    /\ fg.pc = "idle"
    /\ view' = grid_view
    /\ UNCHANGED <<uploads, processed, envfile, jobs, fg, now, nz>>

\* analysis_page, lines 309-310: the detail tab is rendered for the selection
DetailedView(f) ==
    /\ fg.pc = "idle"
    /\ ProcessedImages # {} => f \in ProcessedImages
    /\ view' = detailed_view(f)
    /\ UNCHANGED <<uploads, processed, envfile, jobs, fg, now, nz>>

\* the steps of thread j
JobStep(j) ==
    /\ j \in JobIds
    /\ \/ CopyRead(j)
       \/ CopyWrite(j)
       \/ CopyFail(j)
       \/ \E text \in ExternalTexts, t \in Seconds : AnalyzeReturn(j, text, t)
       \/ \E e \in ExternalErrors, t \in Seconds : AnalyzeRaise(j, e, t)
       \/ OpenEnvelope(j)
       \/ DumpEnvelope(j)

Next ==
    \/ \E f \in Filenames : UploadWrite(f)
    \/ StartThread
    \/ UploadReturn
    \/ \E j \in JobIds : CopyRead(j)
    \/ \E j \in JobIds : CopyWrite(j)
    \/ \E j \in JobIds : CopyFail(j)
    \/ \E j \in JobIds, text \in ExternalTexts, t \in Seconds : AnalyzeReturn(j, text, t)
    \/ \E j \in JobIds, e \in ExternalErrors, t \in Seconds : AnalyzeRaise(j, e, t)
    \/ \E j \in JobIds : OpenEnvelope(j)
    \/ \E j \in JobIds : DumpEnvelope(j)
    \/ GridView
    \/ \E f \in Filenames : DetailedView(f)

(***************************************************************************)
(* One call of parse_openai_response, line by line, on the texts a caller  *)
(* may hand it: a content, bare or inside a fence, with whitespace around  *)
(* the content and around the fence markers.                               *)
(***************************************************************************)
Contents == {<<"{", RUBRIC, "}">>, <<"[", "1", "]">>, <<"{", NNBSP, RUBRIC, "}">>,
             TextNotJson}

Tags == {<<"j", "s", "o", "n">>, <<>>}

WsLead == {<<>>, <<SP>>, <<NL>>}

WsAfterTag == {<<NL>>, <<>>, <<SP, NL>>}

WsBeforeClose == {<<NL>>, <<>>, <<SP>>}

WsTrail == {<<>>, <<NL>>, <<NL, NL>>}

Fenced(lead, tag, after, content, before, trail) ==
    lead \o <<BT, BT, BT>> \o tag \o after \o content \o before \o <<BT, BT, BT>> \o trail

NzCall(style, content, raw) ==
    [pc |-> "call", style |-> style, content |-> content, raw |-> raw,
     description |-> <<>>, result |-> ParseOk(<<>>)]

NormInit ==
    /\ SysInit
    /\ \E content \in Contents :
        \/ \E lead \in WsLead, tag \in Tags, after \in WsAfterTag,
              before \in WsBeforeClose, trail \in WsTrail :
             nz = NzCall(IF tag = <<>> THEN "untagged" ELSE "tagged", content,
                         Str(Fenced(lead, tag, after, content, before, trail)))
        \/ \E lead \in WsLead, trail \in WsTrail :
             nz = NzCall("bare", content, Str(lead \o content \o trail))
        \/ /\ JsonLoads(content).ok
           /\ nz = NzCall("dict", content, Dict(JsonLoads(content).val))

\* lines 37-38
NzIsDict ==
    /\ nz.pc = "call"
    /\ nz.raw.type = "dict"
    /\ nz' = [nz EXCEPT !.pc = "done", !.result = ParseOk(nz.raw.v)]
    /\ UNCHANGED sysvars

\* line 41
NzReplace ==
    /\ nz.pc = "call"
    /\ nz.raw.type = "str"
    /\ nz' = [nz EXCEPT !.pc = "fence", !.description = ReplaceNarrowSpace(nz.raw.v)]
    /\ UNCHANGED sysvars

\* lines 44-47
NzStripFence ==
    /\ nz.pc = "fence"
    /\ nz' = [nz EXCEPT !.pc = "strip", !.description = StripFence(@)]
    /\ UNCHANGED sysvars

\* line 50
NzStrip ==
    /\ nz.pc = "strip"
    /\ nz' = [nz EXCEPT !.pc = "loads", !.description = Strip(@)]
    /\ UNCHANGED sysvars

\* lines 53-56
NzLoads ==
    /\ nz.pc = "loads"
    /\ nz' = [nz EXCEPT !.pc = "done", !.result = LoadsOrRaise(nz.description)]
    /\ UNCHANGED sysvars

NormNext == NzIsDict \/ NzReplace \/ NzStripFence \/ NzStrip \/ NzLoads

SpecNormalize == NormInit /\ [][NormNext]_vars

Spec == Init /\ [][Next]_vars

\* the threads are scheduled, and the external call returns or raises
FairSpec == Spec /\ \A j \in 1..MaxUploads : WF_vars(JobStep(j))

(***************************************************************************)
(* Properties.                                                             *)
(***************************************************************************)
Ended(job) == job.pc \in {"done", "crashed"}

Count(trace, step) == Cardinality({k \in 1..Len(trace) : trace[k] = step})

HasKey(r, key) == key \in DOMAIN r

\* text occurs in msg
Carries(msg, text) ==
    \E i \in 1..(Len(msg) - Len(text) + 1) : SubSeq(msg, i, i + Len(text) - 1) = text

Timestamps == {strftime(t) : t \in Seconds}

JobsOf(f) == {j \in JobIds : jobs[j].filename = f}

\* C1: every run of background_process that has ended has written exactly one
\* envelope, and that envelope has exactly one of the keys description and
\* error, whatever the outcome of the copy, of the external call and of the write.
C1_OneEnvelopePerJob ==
    \A j \in JobIds :
        Ended(jobs[j]) =>
            /\ Count(jobs[j].trace, "write") = 1
            /\ HasKey(jobs[j].results, "description") # HasKey(jobs[j].results, "error")

\* C2: when the external call raises inside a job, the job goes on to build and
\* write the envelope {filename, error: message, timestamp}, without a description
\* key, and the step in which the call raises leaves the upload handler and the
\* uploads directory as they are.
C2_RaisedInv ==
    \A j \in JobIds :
        jobs[j].outcome.kind = "raised" =>
            /\ jobs[j].pc \in {"open", "dump", "done"}
            /\ DOMAIN jobs[j].results = {"filename", "error", "timestamp"}
            /\ jobs[j].results.filename = jobs[j].filename
            /\ jobs[j].results.error = jobs[j].outcome.text
            /\ jobs[j].results.timestamp \in Timestamps

C2_RaisedStep ==
    \A j \in JobIds :
        /\ (jobs[j].pc = "invoke" /\ jobs'[j].outcome.kind = "raised")
              => UNCHANGED <<fg, uploads, processed, envfile>>
        /\ (jobs[j].outcome.kind = "raised" /\ jobs[j].pc = "dump" /\ jobs'[j].pc = "done")
              => /\ envfile'[jobs[j].filename].exists
                 /\ StartsWith(envfile'[jobs[j].filename].bytes,
                               JsonDump([filename |-> jobs[j].filename,
                                         error |-> jobs[j].outcome.text,
                                         timestamp |-> jobs[j].results.timestamp]))

C2_CallFailureRecorded == []C2_RaisedInv /\ [][C2_RaisedStep]_vars

C2_Witness ==
    \E j \in JobIds :
        /\ jobs[j].outcome.kind = "raised"
        /\ jobs[j].pc = "done"
        /\ JsonLoadFile(envfile[jobs[j].filename].bytes).ok
        /\ HasKey(JsonLoadFile(envfile[jobs[j].filename].bytes).analysis, "error")
        /\ fg.pc = "idle"

\* C3: once every job of a filename uploaded at least twice has written its
\* envelope, the processed area holds the bytes of the last upload and one
\* envelope, the one built by the job of the last upload.
C3_LaterUploadWins ==
    \A f \in Filenames :
        (/\ Cardinality(JobsOf(f)) >= 2
         /\ \A j \in JobsOf(f) : jobs[j].pc = "done"
         /\ fg.pc = "idle")
        => /\ processed[f] = Max(JobsOf(f))
           /\ envfile[f].exists
           /\ JsonLoadFile(envfile[f].bytes).ok
           /\ JsonLoadFile(envfile[f].bytes).analysis = jobs[Max(JobsOf(f))].results

\* C4: within one upload the file is under uploads/ before the thread is
\* started, the copy precedes the external call, the call precedes the envelope
\* write, and the envelope file is only touched by a job that has copied and
\* called.
Before(trace, a, b) ==
    \A k \in 1..Len(trace) : trace[k] = b => \E i \in 1..(k - 1) : trace[i] = a

C4_OrderInv ==
    \A j \in JobIds :
        /\ Before(jobs[j].trace, "copy", "call")
        /\ Before(jobs[j].trace, "call", "write")
        /\ uploads[jobs[j].filename] >= j

C4_OrderStep ==
    /\ Len(jobs') > Len(jobs) => uploads[fg.name] = Len(jobs') /\ uploads' = uploads
    /\ \A f \in Filenames :
          envfile'[f] # envfile[f] =>
              \E j \in JobsOf(f) :
                  /\ jobs'[j].pc # jobs[j].pc
                  /\ Count(jobs[j].trace, "copy") = 1
                  /\ Count(jobs[j].trace, "call") = 1

C4_StepsOrdered == []C4_OrderInv /\ [][C4_OrderStep]_vars

C4_Witness ==
    \E j \in JobIds : jobs[j].pc = "done" /\ jobs[j].trace = <<"copy", "call", "write">>

\* C5: a content wrapped in a fence, tagged or not, with any whitespace around
\* the fence markers, normalizes to what the content alone normalizes to.
SameResult(r1, r2) == r1.ok = r2.ok /\ (r1.ok => r1.value = r2.value)

C5_FenceStripped ==
    (nz.pc = "done" /\ nz.style \in {"tagged", "untagged"})
        => SameResult(nz.result, parse_openai_response(Str(nz.content)))

\* C6: when the cleaned text is not valid JSON the call fails and the exception
\* handed to the caller carries the raw text it was given.
C6_ErrorCarriesRaw ==
    (nz.pc = "done" /\ nz.raw.type = "str" /\ ~JsonLoads(nz.description).ok)
        => /\ ~nz.result.ok
           /\ Carries(nz.result.exc, nz.raw.v)

\* C7: the text the external call returned is stored as the description as it
\* is, valid JSON or not, in an envelope without an error key; that it does not
\* parse shows only when a reader normalizes the stored description.
C7_StoredInv ==
    /\ \A j \in JobIds :
          jobs[j].outcome.kind = "returned" =>
              /\ jobs[j].pc \in {"open", "dump", "done"}
              /\ DOMAIN jobs[j].results = {"filename", "description", "timestamp"}
              /\ jobs[j].results.description = jobs[j].outcome.text
    /\ \A f \in DOMAIN view.entries :
          LET a == JsonLoadFile(envfile[f].bytes)
          IN  (a.ok /\ HasKey(a.analysis, "description")
                    /\ ~parse_openai_response(Str(a.analysis.description)).ok)
              => /\ view.entries[f].kind = "error"
                 /\ Carries(view.entries[f].msg, <<"Error parsing JSON response: ">>)

C7_StoredStep ==
    \A j \in JobIds :
        (jobs[j].outcome.kind = "returned" /\ jobs[j].pc = "dump" /\ jobs'[j].pc = "done")
            => StartsWith(envfile'[jobs[j].filename].bytes,
                          JsonDump([filename |-> jobs[j].filename,
                                    description |-> jobs[j].outcome.text,
                                    timestamp |-> jobs[j].results.timestamp]))

C7_StoredVerbatim == []C7_StoredInv /\ [][C7_StoredStep]_vars

C7_Witness ==
    \E j \in JobIds :
        /\ jobs[j].pc = "done"
        /\ jobs[j].outcome = [kind |-> "returned", text |-> TextNotJson]
        /\ JsonLoadFile(envfile[jobs[j].filename].bytes).ok
        /\ JsonLoadFile(envfile[jobs[j].filename].bytes).analysis.description = TextNotJson
        /\ view.page = "detail"
        /\ jobs[j].filename \in DOMAIN view.entries
        /\ view.entries[jobs[j].filename].code = TextNotJson

\* C8: an image of processed/ that has no envelope file yet is never shown as
\* an error by a reader.
Pending(f) == processed[f] # 0 /\ ~envfile[f].exists

C9_ReaderShowsFailure ==
    \A f \in Filenames :
        LET a == JsonLoadFile(envfile[f].bytes)
        IN  (view.page \in {"grid", "detail"} /\ processed[f] # 0 /\ a.ok) =>
                /\ view.exc = ""
                /\ f \in DOMAIN view.entries
                /\ HasKey(a.analysis, "error")
                       => Carries(view.entries[f].msg, a.analysis.error)
                /\ (HasKey(a.analysis, "description")
                        /\ ~parse_openai_response(Str(a.analysis.description)).ok)
                       => /\ view.entries[f].kind = "error"
                          /\ view.entries[f].code = a.analysis.description

\* C10: every job the upload handler has started reaches the end of
\* background_process, its envelope written.
C10_EveryJobPersists ==
    \A j \in 1..MaxUploads : (j \in JobIds) ~> (j \in JobIds /\ jobs[j].pc = "done")
====
